---- MODULE Spec2Model ----
(***************************************************************************)
(* A model of the KES server's identity API (internal/http/identity-api.go)*)
(* on top of a stateless vault (internal/sys/stateless-vault.go), and of   *)
(* the key engine the integration tests exercise.                          *)
(*                                                                         *)
(* Strings are sequences of one-character strings, so that prefixes,       *)
(* trimming and glob matching are computed and not assumed.                *)
(***************************************************************************)
EXTENDS Naturals, Sequences, FiniteSets, TLC

VARIABLES
    identities,   \* Enclave.identities: identity -> [Policy, IsAdmin]
    policies,     \* Enclave.policies: policy name -> [Allow, Deny]
    keys,         \* Enclave.keys: the store's entries [name, value]
    operator,     \* statelessVault.operator
    opSealed,     \* history: the operator's last lifecycle call was Seal
    last,         \* the last request served and the response it got
    kpc,          \* key engine: each client's position in its call
    kreq,         \* key engine: each client's call in flight
    klog,         \* key engine: the calls completed and their results, in order
    sealedbox,    \* key engine: the last ciphertext sealed, and what was sealed
    opened,       \* key engine: the last Decrypt call and its result
    enclave,      \* statelessVault.enclave
    vlast,        \* statelessVault: the last call of the vault and what it returned
    conns,        \* request pipeline: each connection's request in its stages
    metrics,      \* request pipeline: the Metrics counters
    listing       \* listIdentity: the handler's position in its iteration

vars == <<identities, policies, keys, operator, opSealed, last,
          kpc, kreq, klog, sealedbox, opened, enclave, vlast, conns, metrics,
          listing>>

cryptoVars == <<sealedbox, opened>>

pipeVars == <<conns, metrics>>

\* The variables of the operations that the identity API and the key
\* create/delete calls leave alone.
vaultVars == <<enclave, vlast>>

otherVars == <<cryptoVars, vaultVars, pipeVars, listing>>

apiVars == <<identities, policies, operator, opSealed, last>>

keyVars == <<keys, kpc, kreq, klog>>

(***************************************************************************)
(* Strings                                                                 *)
(***************************************************************************)

RECURSIVE HasPrefix(_, _)
HasPrefix(s, prefix) ==
    IF prefix = <<>> THEN TRUE
    ELSE IF s = <<>> THEN FALSE
    ELSE Head(s) = Head(prefix) /\ HasPrefix(Tail(s), Tail(prefix))

TrimPrefix(s, prefix) ==
    IF HasPrefix(s, prefix) THEN SubSeq(s, Len(prefix) + 1, Len(s)) ELSE s

RECURSIVE TrimLeft(_)
TrimLeft(s) ==
    IF s # <<>> /\ Head(s) = " " THEN TrimLeft(Tail(s)) ELSE s

RECURSIVE TrimRight(_)
TrimRight(s) ==
    IF s # <<>> /\ s[Len(s)] = " " THEN TrimRight(SubSeq(s, 1, Len(s) - 1)) ELSE s

TrimSpace(s) == TrimRight(TrimLeft(s))

\* path.Match restricted to literals, '*' and '?': '*' matches any run of
\* non-'/' characters, '?' one non-'/' character.
RECURSIVE Match(_, _)
Match(pattern, name) ==
    IF pattern = <<>> THEN name = <<>>
    ELSE IF Head(pattern) = "*"
         THEN \/ Match(Tail(pattern), name)
              \/ (name # <<>> /\ Head(name) # "/" /\ Match(pattern, Tail(name)))
    ELSE IF name = <<>> THEN FALSE
    ELSE IF Head(pattern) = "?"
         THEN Head(name) # "/" /\ Match(Tail(pattern), Tail(name))
    ELSE Head(pattern) = Head(name) /\ Match(Tail(pattern), Tail(name))

(***************************************************************************)
(* Routes                                                                  *)
(***************************************************************************)

V1Identity == <<"/", "v", "1", "/", "i", "d", "e", "n", "t", "i", "t", "y", "/">>

DescribePath == V1Identity \o <<"d", "e", "s", "c", "r", "i", "b", "e", "/">>

SelfDescribePath == V1Identity \o <<"s", "e", "l", "f", "/", "d", "e", "s", "c", "r", "i", "b", "e">>

DeletePath == V1Identity \o <<"d", "e", "l", "e", "t", "e", "/">>

ListPath == V1Identity \o <<"l", "i", "s", "t", "/">>

MaxBody == 0

(***************************************************************************)
(* Identities, policies and requests                                       *)
(***************************************************************************)

Unknown == <<>>

Admin == <<"0">>

ProxyIdentity == <<"f">>

Clients == {<<"a">>, <<"b">>}

NoHeader == <<"-">>

PolicyNames == {"p1", "p2"}

DenyDelete == [Allow |-> <<V1Identity \o <<"*", "/", "*">>>>,
               Deny |-> <<DeletePath \o <<"*">>, DescribePath \o <<"0">>>>]

AllowDescribe == [Allow |-> <<DescribePath \o <<"?">>, DeletePath \o <<"b">>>>,
                  Deny |-> <<DescribePath \o <<"b">>>>]

PolicyChoices == {DenyDelete, AllowDescribe}

Routes == {"describe", "self", "delete", "list"}

Methods == {"GET", "DELETE", "POST"}

Suffixes == {<<"a">>, <<"b">>, <<"0">>, <<"*">>}

URLs(route) ==
    CASE route = "describe" -> {DescribePath \o x : x \in Suffixes} \cup {<<"/">> \o DescribePath \o <<"a">>}
      [] route = "delete"   -> {DeletePath \o x : x \in Suffixes} \cup {ListPath \o <<"a">>}
      [] route = "list"     -> {ListPath \o x : x \in Suffixes} \cup {ListPath \o <<"?">>}
      [] route = "self"     -> {SelfDescribePath, DescribePath \o <<"a">>}

Headers == {NoHeader, <<"a">>, Admin}

MaxRequestBody == 1

RouteMethod(route) == IF route = "delete" THEN "DELETE" ELSE "GET"

Requests ==
    { r \in [route : Routes, method : Methods, url : UNION {URLs(x) : x \in Routes},
             peer : Clients \cup {Admin, ProxyIdentity, Unknown},
             hdr : Headers,
             enclave : {"", "tenant"},
             body : 0..MaxRequestBody] :
        /\ r.url \in URLs(r.route)
        /\ (r.enclave # "" => r.peer = Admin /\ r.hdr = NoHeader /\ r.body = 0)
        /\ (r.method # RouteMethod(r.route) => r.hdr = NoHeader /\ r.body = 0)
        /\ (r.method = "POST" => r.peer = Admin) }

(***************************************************************************)
(* The stateless vault                                                     *)
(***************************************************************************)

\* GetEnclave finding an enclave under every name.
GetEnclave_AnyName(name) == "OK"

\* statelessVault.GetEnclave: the one enclave for the empty name.
GetEnclave(name) == IF name = "" THEN "OK" ELSE "EnclaveNotFound"

\* lookupEnclave: the enclave named by the request.
lookupEnclave(r) == GetEnclave(r.enclave)

(***************************************************************************)
(* The enclave                                                             *)
(***************************************************************************)

\* The proxy middleware followed by auth.Identify: the forwarded identity
\* when the peer is the trusted proxy and the header is present.
Identify(r) ==
    IF r.peer = ProxyIdentity /\ r.hdr # NoHeader THEN r.hdr ELSE r.peer

\* Policy.Verify: Deny first, then Allow.
Verify(policy, path) ==
    IF \E i \in 1..Len(policy.Deny) : Match(policy.Deny[i], path) THEN "Forbidden"
    ELSE IF \E i \in 1..Len(policy.Allow) : Match(policy.Allow[i], path) THEN "OK"
    ELSE "Forbidden"

VerifyRequest(r, path) ==
    LET identity == Identify(r) IN
    IF identity = Unknown THEN "NotAuthorized"
    ELSE IF identity \notin DOMAIN identities THEN "NotAuthorized"
    ELSE IF identities[identity].IsAdmin THEN "OK"
    ELSE IF identities[identity].Policy \notin DOMAIN policies THEN "NotAuthorized"
    ELSE Verify(policies[identities[identity].Policy], path)

GetIdentity(identity) ==
    IF identity \in DOMAIN identities
    THEN [err |-> "OK", info |-> identities[identity]]
    ELSE [err |-> "NotFound", info |-> [Policy |-> "", IsAdmin |-> FALSE]]

GetPolicy(name) ==
    IF name \in DOMAIN policies
    THEN [err |-> "OK", policy |-> policies[name]]
    ELSE [err |-> "NotFound", policy |-> [Allow |-> <<>>, Deny |-> <<>>]]

DeleteIdentity(identity) ==
    IF identity \notin DOMAIN identities THEN [err |-> "NotFound", ids |-> identities]
    ELSE IF identities[identity].IsAdmin THEN [err |-> "Forbidden", ids |-> identities]
    ELSE [err |-> "OK",
          ids |-> [x \in DOMAIN identities \ {identity} |-> identities[x]]]

ListIdentities == DOMAIN identities

(***************************************************************************)
(* The request pipeline                                                    *)
(***************************************************************************)

RECURSIVE Collapse(_)
Collapse(p) ==
    IF Len(p) < 2 THEN p
    ELSE IF p[1] = "/" /\ p[2] = "/" THEN Collapse(Tail(p))
    ELSE <<Head(p)>> \o Collapse(Tail(p))

RECURSIVE TrimSlashes(_)
TrimSlashes(p) ==
    IF Len(p) > 1 /\ p[Len(p)] = "/" THEN TrimSlashes(SubSeq(p, 1, Len(p) - 1)) ELSE p

Normalize(p) ==
    TrimSlashes(Collapse(IF p = <<>> \/ Head(p) # "/" THEN <<"/">> \o p ELSE p))

normalizeURL(url, prefix) ==
    LET p == Normalize(url) IN
    IF HasPrefix(p, prefix) THEN [err |-> "OK", path |-> p]
    ELSE [err |-> "Invalid", path |-> p]

NameChars == {"0", "a", "b", "c", "f", "-", "_"}

validateName(name) ==
    IF name # <<>> /\ Len(name) <= 80 /\ \A i \in 1..Len(name) : name[i] \in NameChars
    THEN "OK" ELSE "Invalid"

validatePattern(pattern) ==
    IF pattern # <<>> /\ Len(pattern) <= 80
       /\ \A i \in 1..Len(pattern) : pattern[i] \in NameChars \cup {"*", "?"}
    THEN "OK" ELSE "Invalid"

\* A response. Error(w, err) writes err's status and nothing else; calls are
\* the enclave and vault calls the handler made, in order; read is the number
\* of body bytes the handler consumed through its MaxBytesReader.
Response(status, calls) ==
    [status |-> status, accept |-> "", calls |-> calls, out |-> {},
     read |-> 0, ids |-> identities]

\* describeIdentity answering without the VerifyRequest check.
describeIdentity_NoVerify(r) ==
    IF r.method # "GET"
    THEN [Response("MethodNotAllowed", <<>>) EXCEPT !.accept = "GET"]
    ELSE LET u == normalizeURL(r.url, DescribePath) IN
    IF u.err # "OK" THEN Response(u.err, <<>>)
    ELSE IF lookupEnclave(r) # "OK"
    THEN Response(lookupEnclave(r), <<"lookupEnclave">>)
    ELSE LET name == TrimSpace(TrimPrefix(u.path, DescribePath)) IN
    IF validateName(name) # "OK"
    THEN Response(validateName(name), <<"lookupEnclave">>)
    ELSE LET got == GetIdentity(name) IN
    IF got.err # "OK"
    THEN Response(got.err, <<"lookupEnclave", "GetIdentity">>)
    ELSE [Response("OK", <<"lookupEnclave", "GetIdentity">>)
            EXCEPT !.out = {[IsAdmin |-> got.info.IsAdmin, Policy |-> got.info.Policy]}]

describeIdentity(r) ==
    IF r.method # "GET"
    THEN [Response("MethodNotAllowed", <<>>) EXCEPT !.accept = "GET"]
    ELSE LET u == normalizeURL(r.url, DescribePath) IN
    IF u.err # "OK" THEN Response(u.err, <<>>)
    ELSE IF lookupEnclave(r) # "OK"
    THEN Response(lookupEnclave(r), <<"lookupEnclave">>)
    ELSE IF VerifyRequest(r, u.path) # "OK"
    THEN Response(VerifyRequest(r, u.path), <<"lookupEnclave", "VerifyRequest">>)
    ELSE LET name == TrimSpace(TrimPrefix(u.path, DescribePath)) IN
    IF validateName(name) # "OK"
    THEN Response(validateName(name), <<"lookupEnclave", "VerifyRequest">>)
    ELSE LET got == GetIdentity(name) IN
    IF got.err # "OK"
    THEN Response(got.err, <<"lookupEnclave", "VerifyRequest", "GetIdentity">>)
    ELSE [Response("OK", <<"lookupEnclave", "VerifyRequest", "GetIdentity">>)
            EXCEPT !.out = {[IsAdmin |-> got.info.IsAdmin, Policy |-> got.info.Policy]}]

\* selfDescribe looking the policy up for the admin as well.
selfDescribe_AlwaysPolicy(identity) ==
    LET got == GetIdentity(identity) IN
    IF got.err # "OK"
    THEN Response(got.err, <<"lookupEnclave", "GetIdentity">>)
    ELSE LET pol == GetPolicy(got.info.Policy) IN
    IF pol.err # "OK"
    THEN Response(pol.err, <<"lookupEnclave", "GetIdentity", "GetPolicy">>)
    ELSE [Response("OK", <<"lookupEnclave", "GetIdentity", "GetPolicy">>)
            EXCEPT !.out = {[Identity |-> identity, PolicyName |-> got.info.Policy,
                             IsAdmin |-> got.info.IsAdmin, Allow |-> pol.policy.Allow,
                             Deny |-> pol.policy.Deny]}]

\* The tail of selfDescribeIdentity, from auth.Identify on, for the identity
\* it found.
selfDescribe(identity) ==
    LET got == GetIdentity(identity) IN
    IF got.err # "OK"
    THEN Response(got.err, <<"lookupEnclave", "GetIdentity">>)
    ELSE IF got.info.IsAdmin
    THEN [Response("OK", <<"lookupEnclave", "GetIdentity">>)
            EXCEPT !.out = {[Identity |-> identity, PolicyName |-> got.info.Policy,
                             IsAdmin |-> TRUE, Allow |-> <<>>, Deny |-> <<>>]}]
    ELSE LET pol == GetPolicy(got.info.Policy) IN
    IF pol.err # "OK"
    THEN Response(pol.err, <<"lookupEnclave", "GetIdentity", "GetPolicy">>)
    ELSE [Response("OK", <<"lookupEnclave", "GetIdentity", "GetPolicy">>)
            EXCEPT !.out = {[Identity |-> identity, PolicyName |-> got.info.Policy,
                             IsAdmin |-> FALSE, Allow |-> pol.policy.Allow,
                             Deny |-> pol.policy.Deny]}]

\* selfDescribeIdentity taking the forwarding header from any peer.
selfDescribeIdentity_TrustHeader(r) ==
    IF r.method # "GET"
    THEN [Response("MethodNotAllowed", <<>>) EXCEPT !.accept = "GET"]
    ELSE LET u == normalizeURL(r.url, SelfDescribePath) IN
    IF u.err # "OK" THEN Response(u.err, <<>>)
    ELSE IF lookupEnclave(r) # "OK"
    THEN Response(lookupEnclave(r), <<"lookupEnclave">>)
    ELSE selfDescribe(IF r.hdr # NoHeader THEN r.hdr ELSE r.peer)

\* selfDescribeIdentity with the VerifyRequest check of the other routes.
selfDescribeIdentity_Verify(r) ==
    IF r.method # "GET"
    THEN [Response("MethodNotAllowed", <<>>) EXCEPT !.accept = "GET"]
    ELSE LET u == normalizeURL(r.url, SelfDescribePath) IN
    IF u.err # "OK" THEN Response(u.err, <<>>)
    ELSE IF lookupEnclave(r) # "OK"
    THEN Response(lookupEnclave(r), <<"lookupEnclave">>)
    ELSE IF VerifyRequest(r, u.path) # "OK"
    THEN Response(VerifyRequest(r, u.path), <<"lookupEnclave", "VerifyRequest">>)
    ELSE selfDescribe(Identify(r))

selfDescribeIdentity(r) ==
    IF r.method # "GET"
    THEN [Response("MethodNotAllowed", <<>>) EXCEPT !.accept = "GET"]
    ELSE LET u == normalizeURL(r.url, SelfDescribePath) IN
    IF u.err # "OK" THEN Response(u.err, <<>>)
    ELSE IF lookupEnclave(r) # "OK"
    THEN Response(lookupEnclave(r), <<"lookupEnclave">>)
    ELSE selfDescribe(Identify(r))

\* deleteIdentity advertising the method of the other three routes.
deleteIdentity_AcceptGet(r) ==
    IF r.method # "DELETE"
    THEN [Response("MethodNotAllowed", <<>>) EXCEPT !.accept = "GET"]
    ELSE LET u == normalizeURL(r.url, DeletePath) IN
    IF u.err # "OK" THEN Response(u.err, <<>>)
    ELSE IF lookupEnclave(r) # "OK"
    THEN Response(lookupEnclave(r), <<"lookupEnclave">>)
    ELSE IF VerifyRequest(r, u.path) # "OK"
    THEN Response(VerifyRequest(r, u.path), <<"lookupEnclave", "VerifyRequest">>)
    ELSE LET name == TrimSpace(TrimPrefix(u.path, DeletePath)) IN
    IF validateName(name) # "OK"
    THEN Response(validateName(name), <<"lookupEnclave", "VerifyRequest">>)
    ELSE LET del == DeleteIdentity(name) IN
    IF del.err # "OK"
    THEN Response(del.err, <<"lookupEnclave", "VerifyRequest", "DeleteIdentity">>)
    ELSE [Response("OK", <<"lookupEnclave", "VerifyRequest", "DeleteIdentity">>)
            EXCEPT !.ids = del.ids]

\* deleteIdentity deleting without the VerifyRequest check.
deleteIdentity_NoVerify(r) ==
    IF r.method # "DELETE"
    THEN [Response("MethodNotAllowed", <<>>) EXCEPT !.accept = "DELETE"]
    ELSE LET u == normalizeURL(r.url, DeletePath) IN
    IF u.err # "OK" THEN Response(u.err, <<>>)
    ELSE IF lookupEnclave(r) # "OK"
    THEN Response(lookupEnclave(r), <<"lookupEnclave">>)
    ELSE LET name == TrimSpace(TrimPrefix(u.path, DeletePath)) IN
    IF validateName(name) # "OK"
    THEN Response(validateName(name), <<"lookupEnclave">>)
    ELSE LET del == DeleteIdentity(name) IN
    IF del.err # "OK"
    THEN Response(del.err, <<"lookupEnclave", "DeleteIdentity">>)
    ELSE [Response("OK", <<"lookupEnclave", "DeleteIdentity">>)
            EXCEPT !.ids = del.ids]

\* deleteIdentity answering 200 whatever DeleteIdentity returned.
deleteIdentity_IgnoreError(r) ==
    IF r.method # "DELETE"
    THEN [Response("MethodNotAllowed", <<>>) EXCEPT !.accept = "DELETE"]
    ELSE LET u == normalizeURL(r.url, DeletePath) IN
    IF u.err # "OK" THEN Response(u.err, <<>>)
    ELSE IF lookupEnclave(r) # "OK"
    THEN Response(lookupEnclave(r), <<"lookupEnclave">>)
    ELSE IF VerifyRequest(r, u.path) # "OK"
    THEN Response(VerifyRequest(r, u.path), <<"lookupEnclave", "VerifyRequest">>)
    ELSE LET name == TrimSpace(TrimPrefix(u.path, DeletePath)) IN
    IF validateName(name) # "OK"
    THEN Response(validateName(name), <<"lookupEnclave", "VerifyRequest">>)
    ELSE [Response("OK", <<"lookupEnclave", "VerifyRequest", "DeleteIdentity">>)
            EXCEPT !.ids = DeleteIdentity(name).ids]

\* deleteIdentity calling DeleteIdentity before its VerifyRequest check and its
\* name validation.
deleteIdentity_DeleteFirst(r) ==
    IF r.method # "DELETE"
    THEN [Response("MethodNotAllowed", <<>>) EXCEPT !.accept = "DELETE"]
    ELSE LET u == normalizeURL(r.url, DeletePath) IN
    IF u.err # "OK" THEN Response(u.err, <<>>)
    ELSE IF lookupEnclave(r) # "OK"
    THEN Response(lookupEnclave(r), <<"lookupEnclave">>)
    ELSE LET name == TrimSpace(TrimPrefix(u.path, DeletePath))
             del == DeleteIdentity(name) IN
    IF VerifyRequest(r, u.path) # "OK"
    THEN [Response(VerifyRequest(r, u.path), <<"lookupEnclave", "VerifyRequest">>)
            EXCEPT !.ids = del.ids]
    ELSE IF validateName(name) # "OK"
    THEN [Response(validateName(name), <<"lookupEnclave", "VerifyRequest">>)
            EXCEPT !.ids = del.ids]
    ELSE IF del.err # "OK"
    THEN Response(del.err, <<"lookupEnclave", "VerifyRequest", "DeleteIdentity">>)
    ELSE [Response("OK", <<"lookupEnclave", "VerifyRequest", "DeleteIdentity">>)
            EXCEPT !.ids = del.ids]

deleteIdentity(r) ==
    IF r.method # "DELETE"
    THEN [Response("MethodNotAllowed", <<>>) EXCEPT !.accept = "DELETE"]
    ELSE LET u == normalizeURL(r.url, DeletePath) IN
    IF u.err # "OK" THEN Response(u.err, <<>>)
    ELSE IF lookupEnclave(r) # "OK"
    THEN Response(lookupEnclave(r), <<"lookupEnclave">>)
    ELSE IF VerifyRequest(r, u.path) # "OK"
    THEN Response(VerifyRequest(r, u.path), <<"lookupEnclave", "VerifyRequest">>)
    ELSE LET name == TrimSpace(TrimPrefix(u.path, DeletePath)) IN
    IF validateName(name) # "OK"
    THEN Response(validateName(name), <<"lookupEnclave", "VerifyRequest">>)
    ELSE LET del == DeleteIdentity(name) IN
    IF del.err # "OK"
    THEN Response(del.err, <<"lookupEnclave", "VerifyRequest", "DeleteIdentity">>)
    ELSE [Response("OK", <<"lookupEnclave", "VerifyRequest", "DeleteIdentity">>)
            EXCEPT !.ids = del.ids]

\* listIdentity listing without the VerifyRequest check.
listIdentity_NoVerify(r) ==
    IF r.method # "GET"
    THEN [Response("MethodNotAllowed", <<>>) EXCEPT !.accept = "GET"]
    ELSE LET u == normalizeURL(r.url, ListPath) IN
    IF u.err # "OK" THEN Response(u.err, <<>>)
    ELSE IF lookupEnclave(r) # "OK"
    THEN Response(lookupEnclave(r), <<"lookupEnclave">>)
    ELSE LET pattern == TrimSpace(TrimPrefix(u.path, ListPath)) IN
    IF validatePattern(pattern) # "OK"
    THEN Response(validatePattern(pattern), <<"lookupEnclave">>)
    ELSE [Response("OK", <<"lookupEnclave", "ListIdentities">>)
            EXCEPT !.out = {[Identity |-> x, IsAdmin |-> GetIdentity(x).info.IsAdmin,
                             Policy |-> GetIdentity(x).info.Policy] :
                            x \in {y \in ListIdentities : Match(pattern, y)}}]

listIdentity(r) ==
    IF r.method # "GET"
    THEN [Response("MethodNotAllowed", <<>>) EXCEPT !.accept = "GET"]
    ELSE LET u == normalizeURL(r.url, ListPath) IN
    IF u.err # "OK" THEN Response(u.err, <<>>)
    ELSE IF lookupEnclave(r) # "OK"
    THEN Response(lookupEnclave(r), <<"lookupEnclave">>)
    ELSE IF VerifyRequest(r, u.path) # "OK"
    THEN Response(VerifyRequest(r, u.path), <<"lookupEnclave", "VerifyRequest">>)
    ELSE LET pattern == TrimSpace(TrimPrefix(u.path, ListPath)) IN
    IF validatePattern(pattern) # "OK"
    THEN Response(validatePattern(pattern), <<"lookupEnclave", "VerifyRequest">>)
    ELSE [Response("OK", <<"lookupEnclave", "VerifyRequest", "ListIdentities">>)
            EXCEPT !.out = {[Identity |-> x, IsAdmin |-> GetIdentity(x).info.IsAdmin,
                             Policy |-> GetIdentity(x).info.Policy] :
                            x \in {y \in ListIdentities : Match(pattern, y)}}]

\* mux.HandleFunc: the handler registered for the route.
Handle(r) ==
    CASE r.route = "describe" -> describeIdentity(r)
      [] r.route = "self"     -> selfDescribeIdentity(r)
      [] r.route = "delete"   -> deleteIdentity(r)
      [] r.route = "list"     -> listIdentity(r)

(***************************************************************************)
(* The key engine over its key store                                       *)
(***************************************************************************)

NumClients == 2

MaxOps == 3

KeySize == 32

KeyClients == 1..NumClients

KeyNames == {<<"a">>, <<"b">>, <<"a", "/">>}

KeyValues == {"v1", "v2"}

KeyBytes == [len : {16, KeySize}, value : KeyValues]

NoCall == [op |-> "", name |-> <<>>, value |-> ""]

InFlight == Cardinality({c \in KeyClients : kpc[c] # "idle"})

Stored(name) == {e \in keys : e.name = name}

\* Store.Create without the check for an entry of that name.
StoreCreateResult_Overwrite(name, value) ==
    [err |-> "OK", keys |-> keys \cup {[name |-> name, value |-> value]}]

\* Store.Create: create-if-absent.
StoreCreateResult(name, value) ==
    IF Stored(name) # {} THEN [err |-> "KeyExists", keys |-> keys]
    ELSE [err |-> "OK", keys |-> keys \cup {[name |-> name, value |-> value]}]

\* Store.Delete failing for a name it does not hold.
StoreDeleteResult_NotFound(name) ==
    IF Stored(name) = {} THEN [err |-> "NotFound", keys |-> keys]
    ELSE [err |-> "OK", keys |-> keys \ Stored(name)]

\* Store.Delete: deleting a missing key is success.
StoreDeleteResult(name) == [err |-> "OK", keys |-> keys \ Stored(name)]

\* The call returns err before any store call.
Return(op, name, value, err) ==
    /\ klog' = Append(klog, [op |-> op, name |-> name, value |-> value, err |-> err])
    /\ UNCHANGED <<keys, kpc, kreq>>

\* The call goes on to the store.
Call(c, op, name, value) ==
    /\ kpc' = [kpc EXCEPT ![c] = IF op = "delete" THEN "delete" ELSE "create"]
    /\ kreq' = [kreq EXCEPT ![c] = [op |-> op, name |-> name, value |-> value]]
    /\ UNCHANGED <<keys, klog>>

\* CreateKey: the name is validated, a fresh key generated, the store called.
CreateKey(c, name, value) ==
    /\ kpc[c] = "idle"
    /\ Len(klog) + InFlight < MaxOps
    /\ IF validateName(name) # "OK" THEN Return("create", name, value, "Invalid")
       ELSE Call(c, "create", name, value)
    /\ UNCHANGED apiVars
    /\ UNCHANGED otherVars

\* ImportKey: as CreateKey, with the caller's bytes, which must be a key's size.
ImportKey(c, name, bytes) ==
    /\ kpc[c] = "idle"
    /\ Len(klog) + InFlight < MaxOps
    /\ IF validateName(name) # "OK" \/ bytes.len # KeySize THEN Return("import", name, bytes.value, "Invalid")
       ELSE Call(c, "import", name, bytes.value)
    /\ UNCHANGED apiVars
    /\ UNCHANGED otherVars

DeleteKey(c, name) ==
    /\ kpc[c] = "idle"
    /\ Len(klog) + InFlight < MaxOps
    /\ IF validateName(name) # "OK" THEN Return("delete", name, "", "Invalid")
       ELSE Call(c, "delete", name, "")
    /\ UNCHANGED apiVars
    /\ UNCHANGED otherVars

\* The store's Create for the call in flight, and the call's return.
StoreCreate(c) ==
    /\ kpc[c] = "create"
    /\ LET res == StoreCreateResult(kreq[c].name, kreq[c].value) IN
        /\ keys' = res.keys
        /\ klog' = Append(klog, [op |-> kreq[c].op, name |-> kreq[c].name,
                                 value |-> kreq[c].value, err |-> res.err])
    /\ kpc' = [kpc EXCEPT ![c] = "idle"]
    /\ kreq' = [kreq EXCEPT ![c] = NoCall]
    /\ UNCHANGED apiVars
    /\ UNCHANGED otherVars

\* The store's Delete for the call in flight, and the call's return.
StoreDelete(c) ==
    /\ kpc[c] = "delete"
    /\ LET res == StoreDeleteResult(kreq[c].name) IN
        /\ keys' = res.keys
        /\ klog' = Append(klog, [op |-> "delete", name |-> kreq[c].name,
                                 value |-> "", err |-> res.err])
    /\ kpc' = [kpc EXCEPT ![c] = "idle"]
    /\ kreq' = [kreq EXCEPT ![c] = NoCall]
    /\ UNCHANGED apiVars
    /\ UNCHANGED otherVars

(***************************************************************************)
(* The envelope codec and the key engine's Encrypt, Decrypt and            *)
(* GenerateDataKey. A byte slice is its bytes and whether it is nil; the   *)
(* AEAD is symbolic: a ciphertext is opened by the derived key, the nonce  *)
(* and the associated data it was sealed with, and by nothing else.        *)
(***************************************************************************)

NilBytes == [nil |-> TRUE, bytes |-> <<>>]

Slice(b) == [nil |-> FALSE, bytes |-> b]

Plaintexts == {NilBytes, Slice(<<"H", "i">>)}

Contexts == {NilBytes, Slice(<<>>), Slice(<<"c">>), Slice(<<"c", "2">>)}

DataKeys == {Slice(<<"d", "1">>), Slice(<<"d", "2">>)}

IVs == {"iv1", "iv2"}

Nonces == {"n1", "n2"}

Algorithms == {"AES-256-GCM-HMAC-SHA-256", "ChaCha20-Poly1305"}

\* The key derived from the master key and the IV (HKDF-SHA-256, salt = IV).
DeriveKey(key, iv) == [key |-> key, iv |-> iv]

\* The associated data with nil told apart from the empty context.
AssociatedData_NilTag(context) ==
    IF context.nil THEN <<"null">> ELSE <<"bytes">> \o context.bytes

\* The associated data the AEAD binds: the context's bytes.
AssociatedData(context) == context.bytes

\* The envelope on the wire: {aead, iv, nonce, bytes}, in that order.
EncodeEnvelope(e) == <<e.aead, e.iv, e.nonce, e.bytes>>

DecodeEnvelope(b) ==
    IF Len(b) = 4 /\ b[1] \in Algorithms
    THEN [err |-> "OK", aead |-> b[1], iv |-> b[2], nonce |-> b[3], bytes |-> b[4]]
    ELSE [err |-> "NotAuthentic", aead |-> "", iv |-> "", nonce |-> "", bytes |-> <<>>]

\* Envelope Seal, with the algorithm, the IV and the nonce it drew.
SealEnvelope(key, plaintext, context, aead, iv, nonce) ==
    EncodeEnvelope([aead |-> aead, iv |-> iv, nonce |-> nonce,
                    bytes |-> [under |-> DeriveKey(key, iv), aead |-> aead,
                               nonce |-> nonce, text |-> plaintext.bytes,
                               ad |-> AssociatedData(context)]])

\* Envelope Open.
OpenEnvelope(key, envelope, context) ==
    LET e == DecodeEnvelope(envelope) IN
    IF e.err # "OK" THEN [err |-> e.err, plaintext |-> <<>>]
    ELSE IF /\ e.bytes.under = DeriveKey(key, e.iv)
            /\ e.bytes.aead = e.aead
            /\ e.bytes.nonce = e.nonce
            /\ e.bytes.ad = AssociatedData(context)
    THEN [err |-> "OK", plaintext |-> e.bytes.text]
    ELSE [err |-> "NotAuthentic", plaintext |-> <<>>]

NoBox == [op |-> "", name |-> <<>>, key |-> "", plaintext |-> NilBytes,
          context |-> NilBytes, ciphertext |-> <<>>]

NoOpened == [name |-> <<>>, context |-> NilBytes, err |-> "", plaintext |-> <<>>]

\* Encrypt: the plaintext sealed under the named key with the context bound.
Encrypt(name, plaintext, context) ==
    /\ Stored(name) # {}
    /\ \E e \in Stored(name), aead \in Algorithms, iv \in IVs, nonce \in Nonces :
          sealedbox' = [op |-> "encrypt", name |-> name, key |-> e.value,
                        plaintext |-> plaintext, context |-> context,
                        ciphertext |-> SealEnvelope(e.value, plaintext, context,
                                                    aead, iv, nonce)]
    /\ opened' = NoOpened
    /\ UNCHANGED <<apiVars, keyVars, vaultVars, pipeVars, listing>>

\* GenerateDataKey: a fresh data key, in the plain and sealed under the named
\* key with the context bound.
GenerateDataKey(name, context) ==
    /\ Stored(name) # {}
    /\ \E e \in Stored(name), dek \in DataKeys, aead \in Algorithms,
          iv \in IVs, nonce \in Nonces :
          sealedbox' = [op |-> "generate", name |-> name, key |-> e.value,
                        plaintext |-> dek, context |-> context,
                        ciphertext |-> SealEnvelope(e.value, dek, context,
                                                    aead, iv, nonce)]
    /\ opened' = NoOpened
    /\ UNCHANGED <<apiVars, keyVars, vaultVars, pipeVars, listing>>

\* Decrypt of the ciphertext last returned, under the named key.
Decrypt(name, context) ==
    /\ sealedbox # NoBox
    /\ IF Stored(name) = {}
       THEN opened' = [name |-> name, context |-> context, err |-> "NotFound",
                       plaintext |-> <<>>]
       ELSE \E e \in Stored(name) :
              LET got == OpenEnvelope(e.value, sealedbox.ciphertext, context) IN
              opened' = [name |-> name, context |-> context, err |-> got.err,
                         plaintext |-> got.plaintext]
    /\ UNCHANGED <<apiVars, keyVars, sealedbox, vaultVars, pipeVars, listing>>

(***************************************************************************)
(* The stateless vault's calls                                             *)
(***************************************************************************)

\* NewStatelessVault: the Enclave over the key store, the policy set and the
\* identity set it was given. The three are references: what they hold is
\* keys, policies and identities.
DefaultEnclave == [keys |-> "keys", policies |-> "policies", identities |-> "identities"]

NoEnclave == [keys |-> "nil", policies |-> "nil", identities |-> "nil"]

EnclaveNames == {"", "tenant", "default"}

\* statelessVault.CreateEnclave: the error, the enclave returned and the
\* vault's fields after the call.
CreateEnclave(name) ==
    [err |-> "NotImplemented", enclave |-> NoEnclave,
     vault |-> [enclave |-> enclave, operator |-> operator]]

\* DeleteEnclave dropping the vault's enclave when it is named.
DeleteEnclave_DropDefault(name) ==
    IF name = ""
    THEN [err |-> "OK", vault |-> [enclave |-> NoEnclave, operator |-> operator]]
    ELSE [err |-> "NotImplemented", vault |-> [enclave |-> enclave, operator |-> operator]]

\* statelessVault.DeleteEnclave: the error and the vault's fields after it.
DeleteEnclave(name) ==
    [err |-> "NotImplemented", vault |-> [enclave |-> enclave, operator |-> operator]]

\* statelessVault.GetEnclave with the enclave it returns.
GetEnclaveResult(name) ==
    [err |-> GetEnclave(name),
     enclave |-> IF GetEnclave(name) = "OK" THEN enclave ELSE NoEnclave]

\* statelessVault.Operator.
Operator == [err |-> "OK", identity |-> operator]

\* What a call of the vault may change: the vault's fields and its enclave's
\* three sets.
VaultState == [enclave |-> enclave, operator |-> operator, keys |-> keys,
               policies |-> policies, identities |-> identities]

NoVaultCall == [op |-> "", name |-> "", err |-> "", enclave |-> NoEnclave,
                identity |-> Unknown, called |-> {}, before |-> <<>>, after |-> <<>>]

(***************************************************************************)
(* listIdentity step by step: its iteration over the identity set, with    *)
(* the identity set changing under it                                      *)
(***************************************************************************)

ContentType == "application/x-ndjson"

ListClients == Clients \cup {<<"a", "b">>}

ListPatterns == {<<"*">>, <<"?">>, <<"a", "*">>, <<"a">>, <<"?", "b">>}

ListRequests ==
    [route : {"list"}, method : {"GET"}, url : {ListPath \o q : q \in ListPatterns},
     peer : {Admin, <<"b">>}, hdr : {NoHeader}, enclave : {""}, body : {0}]

\* The store errors an iterator's start and Close may return.
IteratorErrors == {"OK", "Unreachable"}

\* The errors encoder.Encode may return when it writes a record to the client.
WriteErrors == {"OK", "BrokenPipe"}

\* ListKeys: the names of the key store that match the pattern.
ListKeys(pattern) == {e.name : e \in {k \in keys : Match(pattern, k.name)}}

\* The loop emitting the identities that do not match.
Selects_Inverted(pattern, identity) == ~Match(pattern, identity)

\* The loop's test: path.Match(pattern, iterator.Identity().String()).
Selects(pattern, identity) == Match(pattern, identity)

\* One line of the response: an identity's record, or the error record.
Record(identity, info) ==
    [Identity |-> identity, IsAdmin |-> info.IsAdmin, Policy |-> info.Policy, Err |-> ""]

ErrRecord(err) == [Identity |-> <<>>, IsAdmin |-> FALSE, Policy |-> "", Err |-> err]

NoListing ==
    [pc |-> "idle", pattern |-> <<>>, start |-> {}, iter |-> {}, records |-> <<>>,
     hasWritten |-> FALSE, status |-> "", contentType |-> "", failed |-> "",
     iterator |-> "none"]

\* The writer after a write of the body: the first write sends the status 200
\* when no status was written.
Written(status) == IF status = "" THEN "OK" ELSE status

\* The handler up to ListIdentities: the checks of listIdentity, then the
\* iterator, which the store may fail to open.
ListBegin(r, err) ==
    /\ listing.pc = "idle"
    /\ LET resp == listIdentity(r) IN
       IF resp.status # "OK"
       THEN /\ err = "OK"
            /\ listing' = [NoListing EXCEPT !.pc = "done", !.status = resp.status]
       ELSE IF err # "OK"
       THEN listing' = [NoListing EXCEPT !.pc = "done", !.status = err, !.failed = err]
       ELSE listing' = [NoListing EXCEPT
                            !.pc = "iterating",
                            !.pattern = TrimSpace(TrimPrefix(normalizeURL(r.url, ListPath).path, ListPath)),
                            !.start = ListIdentities,
                            !.iter = ListIdentities,
                            !.iterator = "open"]
    /\ UNCHANGED <<apiVars, keyVars, cryptoVars, vaultVars, pipeVars>>

\* One turn of the loop, for the identity the iterator yields: the handler
\* returns from inside the loop when GetIdentity fails and when the write of
\* the record fails, and neither return closes the iterator.
ListNext(identity, werr) ==
    /\ listing.pc = "iterating"
    /\ identity \in listing.iter
    /\ IF ~Selects(listing.pattern, identity)
       THEN /\ werr = "OK"
            /\ listing' = [listing EXCEPT !.iter = @ \ {identity}]
       ELSE LET got == GetIdentity(identity) IN
            IF got.err # "OK"
            THEN /\ werr = "OK"
                 /\ listing' = [listing EXCEPT
                                !.pc = "done",
                                !.records = Append(@, ErrRecord(got.err)),
                                !.status = Written(@),
                                !.failed = got.err]
            ELSE IF werr # "OK"
            THEN listing' = [listing EXCEPT
                                !.pc = "done",
                                !.contentType = IF listing.hasWritten THEN @ ELSE ContentType,
                                !.status = Written(@)]
            ELSE listing' = [listing EXCEPT
                                !.iter = @ \ {identity},
                                !.contentType = IF listing.hasWritten THEN @ ELSE ContentType,
                                !.records = Append(@, Record(identity, got.info)),
                                !.status = Written(@),
                                !.hasWritten = TRUE]
    /\ UNCHANGED <<apiVars, keyVars, cryptoVars, vaultVars, pipeVars>>

\* The iterator is exhausted: its Close, and the end of the handler.
ListClose(err) ==
    /\ listing.pc = "iterating"
    /\ listing.iter = {}
    /\ IF err # "OK"
       THEN IF listing.hasWritten
            THEN listing' = [listing EXCEPT !.pc = "done",
                                            !.records = Append(@, ErrRecord(err)),
                                            !.failed = err,
                                            !.iterator = "closed"]
            ELSE listing' = [listing EXCEPT !.pc = "done", !.status = err,
                                            !.failed = err, !.iterator = "closed"]
       ELSE listing' = [listing EXCEPT !.pc = "done", !.status = Written(@),
                                       !.iterator = "closed"]
    /\ UNCHANGED <<apiVars, keyVars, cryptoVars, vaultVars, pipeVars>>

\* The client has read the listing.
ListEnd ==
    /\ listing.pc = "done"
    /\ listing' = NoListing
    /\ UNCHANGED <<apiVars, keyVars, cryptoVars, vaultVars, pipeVars>>

\* Another connection's delete request, served while the listing runs.
ForgetIdentity(identity) ==
    /\ DeleteIdentity(identity).err = "OK"
    /\ identities' = DeleteIdentity(identity).ids
    /\ UNCHANGED <<policies, operator, opSealed, last>>
    /\ UNCHANGED <<keyVars, cryptoVars, vaultVars, pipeVars, listing>>

(***************************************************************************)
(* The request pipeline around the handlers: the deadline, the proxy       *)
(* unwrap, the metrics and the audit log, with time passing while a        *)
(* handler runs                                                            *)
(***************************************************************************)

Conns == {"c1", "c2"}

\* The routes' Timeout, in seconds.
Timeout == 15

\* The time that passes between two looks at a running handler, in seconds.
Delays == {10}

MaxServed == 3

\* The middleware without the deadline.
Middleware_NoTimeout(route) == <<"proxy", "count", "latency">>

\* The middleware without the request counters.
Middleware_NoCount(route) == <<"timeout", "proxy", "latency">>

\* The middleware with the deadline installed inside the metrics.
Middleware_TimeoutInside(route) == <<"proxy", "count", "latency", "timeout">>

\* mux.HandleFunc(APIPath, timeout(Timeout, proxy(config.Proxy,
\* config.Metrics.Count(config.Metrics.Latency(handler))))): the wrappers
\* around the handler, the outermost first.
Middleware(route) == <<"timeout", "proxy", "count", "latency">>

Wraps(route, wrapper) ==
    \E i \in 1..Len(Middleware(route)) : Middleware(route)[i] = wrapper

\* The stage of the pipeline a wrapper is.
StageOf(wrapper) ==
    CASE wrapper = "timeout" -> <<"deadline">>
      [] wrapper = "proxy"   -> <<"proxy">>
      [] wrapper = "count"   -> <<"metrics">>
      [] wrapper = "latency" -> <<>>

RECURSIVE Entered(_)
Entered(wrappers) ==
    IF wrappers = <<>> THEN <<>>
    ELSE StageOf(Head(wrappers)) \o Entered(Tail(wrappers))

\* The handler returned at the enclave lookup or at VerifyRequest.
AuthRejected(resp) ==
    \/ resp.calls = <<"lookupEnclave">>
    \/ /\ resp.calls = <<"lookupEnclave", "VerifyRequest">>
       /\ resp.status \in {"NotAuthorized", "Forbidden", "Timeout"}

\* The stages a handler went through, from its audit wrap to the check it
\* returned at.
HandlerStages(resp) ==
    <<"audit", "method">> \o
    (IF resp.status = "MethodNotAllowed" THEN <<>>
     ELSE <<"normalize">> \o
          (IF resp.calls = <<>> THEN <<>>
           ELSE <<"bodycap", "authorize">> \o
                (IF AuthRejected(resp) THEN <<>> ELSE <<"handler">>)))

\* The handler under a cancelled context: the first call that takes the
\* context fails with the deadline's error, and nothing is changed.
Cancelled(resp) ==
    IF Len(resp.calls) <= 1 THEN resp
    ELSE Response("Timeout", SubSeq(resp.calls, 1, 2))

\* The status class a status is counted in.
Class(status) ==
    IF status = "OK" THEN "ok"
    ELSE IF status \in {"Timeout", "Unreachable", "Sealed", "NotImplemented"} THEN "fail"
    ELSE "err"

DescribeAdmin ==
    [route |-> "describe", method |-> "GET", url |-> DescribePath \o Admin,
     peer |-> Admin, hdr |-> NoHeader, enclave |-> "", body |-> 0]

PipeRequests ==
    {DescribeAdmin,
     [DescribeAdmin EXCEPT !.method = "POST"],
     [DescribeAdmin EXCEPT !.enclave = "tenant"],
     [DescribeAdmin EXCEPT !.peer = <<"b">>],
     [DescribeAdmin EXCEPT !.route = "delete", !.method = "DELETE", !.url = ListPath \o <<"a">>],
     [DescribeAdmin EXCEPT !.route = "self", !.url = SelfDescribePath,
                           !.peer = ProxyIdentity, !.hdr = Admin],
     [DescribeAdmin EXCEPT !.route = "list", !.url = ListPath \o <<"*">>]}

(***************************************************************************)
(* Actions                                                                 *)
(***************************************************************************)

NoRequest ==
    [route |-> "none", method |-> "", url |-> <<>>, peer |-> Unknown,
     hdr |-> NoHeader, enclave |-> "", body |-> 0]

NoResponse ==
    [status |-> "", accept |-> "", calls |-> <<>>, out |-> {}, read |-> 0, ids |-> <<>>]

\* Operations are taken one at a time, each when the response to the one
\* before has been read. One request served: the response, and the identity set the handler leaves. before keeps
\* the enclave and the seal history the request was served in.
Serve(r) ==
    /\ last.req = NoRequest
    /\ LET resp == Handle(r) IN
        /\ last' = [req |-> r, resp |-> resp,
                    before |-> [identities |-> identities, policies |-> policies,
                                sealed |-> opSealed]]
        /\ identities' = resp.ids
    /\ UNCHANGED <<policies, operator, opSealed>>
    /\ UNCHANGED keyVars
    /\ UNCHANGED otherVars

\* The client has read the response; its connection takes the next request.
Receive ==
    /\ last.req # NoRequest
    /\ last' = [req |-> NoRequest, resp |-> NoResponse,
                before |-> [identities |-> <<>>, policies |-> <<>>, sealed |-> FALSE]]
    /\ UNCHANGED <<identities, policies, operator, opSealed>>
    /\ UNCHANGED keyVars
    /\ UNCHANGED otherVars

\* statelessVault.Seal and Unseal return nil and keep no state.
Seal ==
    /\ last.req = NoRequest
    /\ opSealed' = TRUE
    /\ UNCHANGED <<identities, policies, operator, last>>
    /\ UNCHANGED keyVars
    /\ UNCHANGED otherVars

Unseal ==
    /\ last.req = NoRequest
    /\ opSealed' = FALSE
    /\ UNCHANGED <<identities, policies, operator, last>>
    /\ UNCHANGED keyVars
    /\ UNCHANGED otherVars

\* Enclave.SetPolicy, DeletePolicy and AssignPolicy, called by the admin.
SetPolicy(name, policy) ==
    /\ last.req = NoRequest
    /\ policies' = [x \in DOMAIN policies \cup {name} |->
                        IF x = name THEN policy ELSE policies[x]]
    /\ UNCHANGED <<identities, operator, opSealed, last>>
    /\ UNCHANGED keyVars
    /\ UNCHANGED otherVars

DeletePolicy(name) ==
    /\ last.req = NoRequest
    /\ name \in DOMAIN policies
    /\ policies' = [x \in DOMAIN policies \ {name} |-> policies[x]]
    /\ UNCHANGED <<identities, operator, opSealed, last>>
    /\ UNCHANGED keyVars
    /\ UNCHANGED otherVars

AssignPolicy(name, identity) ==
    /\ last.req = NoRequest
    /\ identity \notin {Unknown, Admin}
    /\ identities' = [x \in DOMAIN identities \cup {identity} |->
                        IF x = identity THEN [Policy |-> name, IsAdmin |-> FALSE]
                        ELSE identities[x]]
    /\ UNCHANGED <<policies, operator, opSealed, last>>
    /\ UNCHANGED keyVars
    /\ UNCHANGED otherVars

\* One call of the vault by the operator. called keeps which calls were made
\* before this one; before and after keep the vault around the call.
CallCreateEnclave(name) ==
    /\ LET res == CreateEnclave(name) IN
        /\ enclave' = res.vault.enclave
        /\ operator' = res.vault.operator
        /\ vlast' = [op |-> "CreateEnclave", name |-> name, err |-> res.err,
                     enclave |-> res.enclave, identity |-> Unknown,
                     called |-> (vlast.called \cup {vlast.op}) \ {""},
                     before |-> VaultState,
                     after |-> [VaultState EXCEPT !.enclave = res.vault.enclave,
                                                  !.operator = res.vault.operator]]
    /\ UNCHANGED <<identities, policies, opSealed, last>>
    /\ UNCHANGED <<keyVars, cryptoVars, pipeVars, listing>>

CallDeleteEnclave(name) ==
    /\ LET res == DeleteEnclave(name) IN
        /\ enclave' = res.vault.enclave
        /\ operator' = res.vault.operator
        /\ vlast' = [op |-> "DeleteEnclave", name |-> name, err |-> res.err,
                     enclave |-> NoEnclave, identity |-> Unknown,
                     called |-> (vlast.called \cup {vlast.op}) \ {""},
                     before |-> VaultState,
                     after |-> [VaultState EXCEPT !.enclave = res.vault.enclave,
                                                  !.operator = res.vault.operator]]
    /\ UNCHANGED <<identities, policies, opSealed, last>>
    /\ UNCHANGED <<keyVars, cryptoVars, pipeVars, listing>>

CallGetEnclave(name) ==
    /\ LET res == GetEnclaveResult(name) IN
        vlast' = [op |-> "GetEnclave", name |-> name, err |-> res.err,
                  enclave |-> res.enclave, identity |-> Unknown,
                  called |-> (vlast.called \cup {vlast.op}) \ {""},
                  before |-> VaultState, after |-> VaultState]
    /\ UNCHANGED <<apiVars, keyVars, cryptoVars, enclave, pipeVars, listing>>

CallOperator ==
    /\ vlast' = [op |-> "Operator", name |-> "", err |-> Operator.err,
                 enclave |-> NoEnclave, identity |-> Operator.identity,
                 called |-> (vlast.called \cup {vlast.op}) \ {""},
                 before |-> VaultState, after |-> VaultState]
    /\ UNCHANGED <<apiVars, keyVars, cryptoVars, enclave, pipeVars, listing>>

NoConn == [pc |-> "idle", req |-> NoRequest, elapsed |-> 0, expired |-> FALSE,
           client |-> "", status |-> "", audit |-> "", stages |-> <<>>]

NoMetrics == [requests |-> 0, ok |-> 0, err |-> 0, fail |-> 0]

\* A request arrives: timeout installs the deadline and starts the handler,
\* proxy and the metrics wrap it.
Accept(c, r) ==
    /\ conns[c].pc = "idle"
    /\ metrics.requests < MaxServed
    /\ conns' = [conns EXCEPT ![c] =
                    [NoConn EXCEPT !.pc = "started", !.req = r,
                                   !.stages = Entered(Middleware(r.route))]]
    /\ metrics' = IF Wraps(r.route, "count")
                  THEN [metrics EXCEPT !.requests = @ + 1] ELSE metrics
    /\ UNCHANGED <<apiVars, keyVars, cryptoVars, vaultVars, listing>>

\* Time passes for a handler that has not finished. At the deadline timeout
\* answers 504 on the connection and cancels the request's context.
Tick(c, d) ==
    /\ conns[c].pc \in {"started", "worked"}
    /\ conns[c].elapsed < Timeout
    /\ LET now == IF conns[c].elapsed + d < Timeout THEN conns[c].elapsed + d ELSE Timeout IN
       IF now = Timeout /\ Wraps(conns[c].req.route, "timeout")
       THEN conns' = [conns EXCEPT ![c].elapsed = now, ![c].expired = TRUE,
                                   ![c].client = "Timeout"]
       ELSE conns' = [conns EXCEPT ![c].elapsed = now]
    /\ UNCHANGED <<apiVars, keyVars, cryptoVars, vaultVars, metrics, listing>>

\* The handler runs its checks and its enclave calls.
Run(c) ==
    /\ conns[c].pc = "started"
    /\ LET resp == IF conns[c].expired THEN Cancelled(Handle(conns[c].req))
                   ELSE Handle(conns[c].req) IN
        /\ identities' = resp.ids
        /\ conns' = [conns EXCEPT ![c].pc = "worked", ![c].status = resp.status,
                                  ![c].stages = @ \o HandlerStages(resp)]
    /\ UNCHANGED <<policies, operator, opSealed, last>>
    /\ UNCHANGED <<keyVars, cryptoVars, vaultVars, metrics, listing>>

\* The handler writes its status and returns: the audit wrap logs it, the
\* metrics count it, and timeout's writer passes it on unless it has answered.
Write(c) ==
    /\ conns[c].pc = "worked"
    /\ conns' = [conns EXCEPT ![c].pc = "written",
                              ![c].audit = conns[c].status,
                              ![c].client = IF conns[c].expired THEN @ ELSE conns[c].status]
    /\ metrics' = IF Wraps(conns[c].req.route, "count")
                  THEN [metrics EXCEPT ![Class(conns[c].status)] = @ + 1] ELSE metrics
    /\ UNCHANGED <<apiVars, keyVars, cryptoVars, vaultVars, listing>>

\* The request is over: the connection takes the next one.
Close(c) ==
    /\ conns[c].pc = "written"
    /\ conns' = [conns EXCEPT ![c] = NoConn]
    /\ UNCHANGED <<apiVars, keyVars, cryptoVars, vaultVars, metrics, listing>>

\* Nothing sealed or opened, no call of the vault made, no request in the
\* pipeline, no listing under way.
InitOther ==
    /\ sealedbox = NoBox
    /\ opened = NoOpened
    /\ enclave = DefaultEnclave
    /\ vlast = NoVaultCall
    /\ conns = [c \in Conns |-> NoConn]
    /\ metrics = NoMetrics
    /\ listing = NoListing

Init ==
    /\ \E name \in {"", "p1"} :
          identities = [x \in {Admin} |-> [Policy |-> name, IsAdmin |-> TRUE]]
    /\ policies = <<>>
    /\ keys = {}
    /\ operator = Admin
    /\ opSealed = FALSE
    /\ last = [req |-> NoRequest, resp |-> NoResponse,
               before |-> [identities |-> <<>>, policies |-> <<>>, sealed |-> FALSE]]
    /\ kpc = [c \in KeyClients |-> "idle"]
    /\ kreq = [c \in KeyClients |-> NoCall]
    /\ klog = <<>>
    /\ InitOther

Next ==
    \/ \E r \in Requests : Serve(r)
    \/ Receive
    \/ Seal
    \/ Unseal
    \/ \E name \in PolicyNames, policy \in PolicyChoices : SetPolicy(name, policy)
    \/ \E name \in PolicyNames : DeletePolicy(name)
    \/ \E name \in PolicyNames, identity \in Clients : AssignPolicy(name, identity)

Spec == Init /\ [][Next]_vars

NextKeys ==
    \/ \E c \in KeyClients, name \in KeyNames, value \in KeyValues : CreateKey(c, name, value)
    \/ \E c \in KeyClients, name \in KeyNames, bytes \in KeyBytes : ImportKey(c, name, bytes)
    \/ \E c \in KeyClients, name \in KeyNames : DeleteKey(c, name)
    \/ \E c \in KeyClients : StoreCreate(c)
    \/ \E c \in KeyClients : StoreDelete(c)

SpecKeys == Init /\ [][NextKeys]_vars

\* The key stores the crypto calls are made on: at most one key per name.
KeyStores ==
    {ks \in SUBSET [name : {<<"a">>, <<"b">>}, value : KeyValues] :
        \A e \in ks, f \in ks : e.name = f.name => e = f}

InitCrypto ==
    /\ identities = [x \in {Admin} |-> [Policy |-> "", IsAdmin |-> TRUE]]
    /\ policies = <<>>
    /\ keys \in KeyStores
    /\ operator = Admin
    /\ opSealed = FALSE
    /\ last = [req |-> NoRequest, resp |-> NoResponse,
               before |-> [identities |-> <<>>, policies |-> <<>>, sealed |-> FALSE]]
    /\ kpc = [c \in KeyClients |-> "idle"]
    /\ kreq = [c \in KeyClients |-> NoCall]
    /\ klog = <<>>
    /\ InitOther

NextCrypto ==
    \/ \E name \in {<<"a">>, <<"b">>}, plaintext \in Plaintexts, context \in Contexts :
          Encrypt(name, plaintext, context)
    \/ \E name \in {<<"a">>, <<"b">>}, context \in Contexts : GenerateDataKey(name, context)
    \/ \E name \in {<<"a">>, <<"b">>}, context \in Contexts : Decrypt(name, context)

SpecCrypto == InitCrypto /\ [][NextCrypto]_vars

InitList ==
    /\ identities = [x \in {Admin} |-> [Policy |-> "", IsAdmin |-> TRUE]]
    /\ policies = <<>>
    /\ keys \in {ks \in KeyStores : \A e \in ks : e.value = "v1"}
    /\ operator = Admin
    /\ opSealed = FALSE
    /\ last = [req |-> NoRequest, resp |-> NoResponse,
               before |-> [identities |-> <<>>, policies |-> <<>>, sealed |-> FALSE]]
    /\ kpc = [c \in KeyClients |-> "idle"]
    /\ kreq = [c \in KeyClients |-> NoCall]
    /\ klog = <<>>
    /\ InitOther

NextList ==
    \/ \E r \in ListRequests, err \in IteratorErrors : ListBegin(r, err)
    \/ \E identity \in ListClients \cup {Admin}, werr \in WriteErrors :
          ListNext(identity, werr)
    \/ \E err \in IteratorErrors : ListClose(err)
    \/ ListEnd
    \/ \E identity \in ListClients : AssignPolicy("p1", identity)
    \/ \E identity \in ListClients : ForgetIdentity(identity)

SpecList == InitList /\ [][NextList]_vars

NextPipeline ==
    \/ \E c \in Conns, r \in PipeRequests : Accept(c, r)
    \/ \E c \in Conns, d \in Delays : Tick(c, d)
    \/ \E c \in Conns : Run(c)
    \/ \E c \in Conns : Write(c)
    \/ \E c \in Conns : Close(c)

SpecPipeline == Init /\ [][NextPipeline]_vars

NextVault ==
    \/ Seal
    \/ Unseal
    \/ \E name \in EnclaveNames : CallCreateEnclave(name)
    \/ \E name \in EnclaveNames : CallDeleteEnclave(name)
    \/ \E name \in EnclaveNames : CallGetEnclave(name)
    \/ CallOperator
    \/ \E identity \in Clients : AssignPolicy("p1", identity)

SpecVault == Init /\ [][NextVault]_vars

(***************************************************************************)
(* Properties of the identity API                                          *)
(***************************************************************************)

Served == last.req # NoRequest

APIPath(route) ==
    CASE route = "describe" -> DescribePath
      [] route = "self"     -> SelfDescribePath
      [] route = "delete"   -> DeletePath
      [] route = "list"     -> ListPath

\* The request passed the method check and normalizeURL.
WellFormed ==
    /\ Served
    /\ last.req.method = RouteMethod(last.req.route)
    /\ normalizeURL(last.req.url, APIPath(last.req.route)).err = "OK"

\* The request reached VerifyRequest: a describe, delete or list request
\* that is well formed and names the default enclave.
Verified ==
    /\ WellFormed
    /\ last.req.route \in {"describe", "delete", "list"}
    /\ last.req.enclave = ""

NormalizedPath == normalizeURL(last.req.url, APIPath(last.req.route)).path

Effective ==
    IF last.req.peer = ProxyIdentity /\ last.req.hdr # NoHeader
    THEN last.req.hdr ELSE last.req.peer

Reached(call) == \E i \in 1..Len(last.resp.calls) : last.resp.calls[i] = call

\* The handler returned at its VerifyRequest check.
RejectedByVerify ==
    /\ last.resp.calls = <<"lookupEnclave", "VerifyRequest">>
    /\ last.resp.status \in {"NotAuthorized", "Forbidden"}
    /\ last.resp.ids = last.before.identities

\* The caller is a non-admin identity of the identity set whose policy exists.
HasPolicy ==
    /\ Effective \in DOMAIN last.before.identities
    /\ ~last.before.identities[Effective].IsAdmin
    /\ last.before.identities[Effective].Policy \in DOMAIN last.before.policies

CallerPolicy == last.before.policies[last.before.identities[Effective].Policy]

Range(seq) == {seq[i] : i \in 1..Len(seq)}

Permits(policy, x) ==
    /\ \E a \in Range(policy.Allow) : Match(a, x)
    /\ ~\E d \in Range(policy.Deny) : Match(d, x)

\* C1: a request by an identity with policy P for the normalized path x passes
\* the authorization check iff x matches a pattern of P.Allow and none of
\* P.Deny; otherwise it is answered Forbidden, deny taking precedence.
C1_PolicyEvaluation ==
    (Verified /\ HasPolicy) =>
        IF Permits(CallerPolicy, NormalizedPath)
        THEN ~RejectedByVerify /\ Reached("VerifyRequest")
        ELSE RejectedByVerify /\ last.resp.status = "Forbidden"

\* A path that matches both an Allow and a Deny pattern was answered Forbidden.
C1_Witness ==
    /\ Verified /\ HasPolicy
    /\ \E a \in Range(CallerPolicy.Allow) : Match(a, NormalizedPath)
    /\ \E d \in Range(CallerPolicy.Deny) : Match(d, NormalizedPath)
    /\ last.resp.status = "Forbidden"

\* C2: between an operator's Seal and the next Unseal every request that
\* passes the method and URL checks fails with Sealed and makes no enclave or
\* vault call.
C2_SealedGate ==
    (WellFormed /\ last.before.sealed) =>
        last.resp.status = "Sealed" /\ last.resp.calls = <<>>

\* C3: a request whose body is larger than the route's MaxBody fails with
\* TooLarge before any enclave lookup, authorization or store call.
C3_BodyCap ==
    (WellFormed /\ last.req.body > MaxBody) =>
        last.resp.status = "TooLarge" /\ last.resp.calls = <<>>

\* C4: a describe, delete or list request whose effective identity is empty
\* or not in the identity set is answered NotAuthorized at the VerifyRequest
\* check, whatever the policy set, and reaches no GetIdentity, DeleteIdentity
\* or ListIdentities call.
C4_UnknownIdentity ==
    (Verified /\ Effective \notin DOMAIN last.before.identities) =>
        /\ RejectedByVerify
        /\ last.resp.status = "NotAuthorized"
        /\ ~Reached("GetIdentity") /\ ~Reached("DeleteIdentity")
        /\ ~Reached("ListIdentities")

\* A delete request by an identity that is not in the identity set, with a
\* policy set that allows the path, was answered NotAuthorized.
C4_Witness ==
    /\ Verified /\ last.req.route = "delete"
    /\ Effective # Unknown /\ Effective \notin DOMAIN last.before.identities
    /\ \E n \in DOMAIN last.before.policies :
           Permits(last.before.policies[n], NormalizedPath)
    /\ last.resp.status = "NotAuthorized"

\* C5: a request by the admin identity passes the authorization check for
\* every path whatever the policy set, and no policy is looked up for it: its
\* self description succeeds with an empty policy.
C5_AdminBypass ==
    (WellFormed /\ last.req.enclave = "" /\ Effective = Admin) =>
        /\ ~RejectedByVerify
        /\ ~Reached("GetPolicy")
        /\ last.req.route = "self" =>
              /\ last.resp.status = "OK"
              /\ last.resp.out =
                    {[Identity |-> Admin, IsAdmin |-> TRUE, Allow |-> <<>>, Deny |-> <<>>,
                      PolicyName |-> last.before.identities[Admin].Policy]}

\* The admin deleted an identity although the policy its record names, and
\* every other policy, rejects the path.
C5_Witness ==
    /\ Verified /\ Effective = Admin /\ last.req.route = "delete"
    /\ last.before.identities[Admin].Policy \in DOMAIN last.before.policies
    /\ \A n \in DOMAIN last.before.policies :
           ~Permits(last.before.policies[n], NormalizedPath)
    /\ last.resp.status = "OK"
    /\ last.resp.ids # last.before.identities

\* The identity a delete request names.
DeleteTarget == TrimSpace(TrimPrefix(NormalizedPath, DeletePath))

\* C6: the admin identity is always in the identity set and admin, and a
\* delete request for it that reaches DeleteIdentity is answered Forbidden
\* and leaves the identity set as it was.
C6_AdminNotDeletable ==
    /\ Admin \in DOMAIN identities
    /\ identities[Admin].IsAdmin
    /\ (Verified /\ last.req.route = "delete" /\ DeleteTarget = Admin
            /\ Reached("DeleteIdentity")) =>
          /\ last.resp.status = "Forbidden"
          /\ last.resp.ids = last.before.identities

\* The admin itself asked to delete the admin identity and got Forbidden.
C6_Witness ==
    /\ Verified /\ last.req.route = "delete" /\ DeleteTarget = Admin
    /\ Effective = Admin
    /\ Reached("DeleteIdentity")
    /\ last.resp.status = "Forbidden"

\* The caller is a non-admin identity of the identity set whose policy name
\* names no policy.
Dangling ==
    /\ Effective \in DOMAIN last.before.identities
    /\ ~last.before.identities[Effective].IsAdmin
    /\ last.before.identities[Effective].Policy \notin DOMAIN last.before.policies

C8_ProxyUnwrap ==
    /\ []((WellFormed /\ last.req.route = "self" /\ last.resp.status = "OK") =>
            \A d \in last.resp.out : d.Identity = Effective)
    /\ [][(last.req = NoRequest /\ last'.req # NoRequest
            /\ last'.req.peer # ProxyIdentity) =>
            \A h \in Headers : Handle([last'.req EXCEPT !.hdr = h]) = last'.resp]_vars

\* The trusted proxy forwarded an identity and the self description names it.
C8_Witness ==
    /\ WellFormed /\ last.req.route = "self"
    /\ last.req.peer = ProxyIdentity /\ last.req.hdr = <<"a">>
    /\ last.resp.status = "OK"
    /\ \E d \in last.resp.out : d.Identity = <<"a">>

\* The checks of a delete request, each from the request and the enclave it
\* was served in.
MethodOK == last.req.method = "DELETE"

URLOK == normalizeURL(last.req.url, DeletePath).err = "OK"

EnclaveOK == last.req.enclave = ""

VerifyOK ==
    /\ Effective \in DOMAIN last.before.identities
    /\ \/ last.before.identities[Effective].IsAdmin
       \/ HasPolicy /\ Permits(CallerPolicy, NormalizedPath)

NameOK == validateName(DeleteTarget) = "OK"

ChecksPassed == MethodOK /\ URLOK /\ EnclaveOK /\ VerifyOK /\ NameOK

\* DeleteIdentity succeeds: the identity named is in the set and not admin.
DeleteOK ==
    /\ DeleteTarget \in DOMAIN last.before.identities
    /\ ~last.before.identities[DeleteTarget].IsAdmin

Without(ids, identity) == [x \in DOMAIN ids \ {identity} |-> ids[x]]

\* C22: a delete request changes the identity set only when the method
\* check, URL normalization, enclave lookup, VerifyRequest and name
\* validation have passed, and then only by removing the identity it names;
\* the first of these checks that fails, in that order, answers the request;
\* a request rejected at a check, or whose DeleteIdentity fails, is not
\* answered 200 and leaves the identity set as it was; no delete request
\* changes the policy set or the key store.
C22_DeleteFrame ==
    /\ []((Served /\ last.req.route = "delete") =>
            /\ identities = last.resp.ids
            /\ last.resp.ids # last.before.identities =>
                  /\ ChecksPassed /\ DeleteOK
                  /\ last.resp.ids = Without(last.before.identities, DeleteTarget)
            /\ ~(ChecksPassed /\ DeleteOK) =>
                  /\ last.resp.ids = last.before.identities
                  /\ last.resp.status # "OK"
            /\ ~MethodOK =>
                  last.resp.status = "MethodNotAllowed" /\ last.resp.calls = <<>>
            /\ (MethodOK /\ ~URLOK) =>
                  /\ last.resp.status = normalizeURL(last.req.url, DeletePath).err
                  /\ last.resp.calls = <<>>
            /\ (MethodOK /\ URLOK /\ ~EnclaveOK) =>
                  /\ last.resp.status = "EnclaveNotFound"
                  /\ last.resp.calls = <<"lookupEnclave">>
            /\ (MethodOK /\ URLOK /\ EnclaveOK /\ ~VerifyOK) => RejectedByVerify
            /\ (MethodOK /\ URLOK /\ EnclaveOK /\ VerifyOK /\ ~NameOK) =>
                  /\ last.resp.status = validateName(DeleteTarget)
                  /\ last.resp.calls = <<"lookupEnclave", "VerifyRequest">>
            /\ (ChecksPassed /\ ~DeleteOK) =>
                  /\ last.resp.status \in {"NotFound", "Forbidden"}
                  /\ Reached("DeleteIdentity"))
    /\ [][(last.req = NoRequest /\ last'.req.route = "delete") =>
            policies' = policies /\ keys' = keys]_vars

\* An identity whose policy allows the path deleted the identity b, and the
\* identity set lost b and nothing else.
C22_Witness ==
    /\ Served /\ last.req.route = "delete"
    /\ ChecksPassed /\ DeleteOK /\ HasPolicy
    /\ DeleteTarget = <<"b">>
    /\ last.resp.status = "OK"
    /\ identities = Without(last.before.identities, <<"b">>)
    /\ Cardinality(DOMAIN last.before.identities) >= 3

\* The caller's record as the enclave held it before the request.
CallerInfo == last.before.identities[Effective]

\* C23: the self description handler never calls VerifyRequest; a response
\* of it describes the request's effective identity and no other, with the
\* policy name and admin flag of that identity's record; a description is
\* returned only when the effective identity is in the identity set and,
\* unless it is admin, its policy exists, and then carries that policy; for
\* an admin the description carries an empty Allow and Deny and no policy
\* is looked up.
C23_SelfDescribe ==
    (Served /\ last.req.route = "self") =>
        /\ ~Reached("VerifyRequest")
        /\ last.resp.status = "OK" <=> last.resp.out # {}
        /\ last.resp.out # {} =>
              /\ Effective \in DOMAIN last.before.identities
              /\ CallerInfo.IsAdmin \/ CallerInfo.Policy \in DOMAIN last.before.policies
              /\ last.resp.out =
                    {[Identity |-> Effective,
                      PolicyName |-> CallerInfo.Policy,
                      IsAdmin |-> CallerInfo.IsAdmin,
                      Allow |-> IF CallerInfo.IsAdmin THEN <<>> ELSE CallerPolicy.Allow,
                      Deny |-> IF CallerInfo.IsAdmin THEN <<>> ELSE CallerPolicy.Deny]}
              /\ CallerInfo.IsAdmin => ~Reached("GetPolicy")

\* An identity whose policy does not permit the self description path asked
\* for its self description and got its own record and policy.
C23_Witness ==
    /\ WellFormed /\ last.req.route = "self"
    /\ HasPolicy /\ ~Permits(CallerPolicy, NormalizedPath)
    /\ last.resp.status = "OK"
    /\ \E d \in last.resp.out : d.Identity = Effective /\ d.Allow = CallerPolicy.Allow

\* C15: on each identity route a request with another method than the
\* route's is answered MethodNotAllowed with Accept set to the route's method,
\* before normalizeURL, the enclave lookup, VerifyRequest and every call that
\* reads or writes the identity set.
C15_MethodGate ==
    (Served /\ last.req.method # RouteMethod(last.req.route)) =>
        /\ last.resp.status = "MethodNotAllowed"
        /\ last.resp.accept = RouteMethod(last.req.route)
        /\ last.resp.calls = <<>>
        /\ last.resp.out = {}
        /\ last.resp.ids = last.before.identities

\* A GET on the delete route with a URL that normalizeURL rejects was
\* answered MethodNotAllowed with Accept: DELETE.
C15_Witness ==
    /\ Served /\ last.req.route = "delete" /\ last.req.method = "GET"
    /\ normalizeURL(last.req.url, DeletePath).err # "OK"
    /\ last.resp.status = "MethodNotAllowed"
    /\ last.resp.accept = "DELETE"

(***************************************************************************)
(* Properties of the key engine                                            *)
(***************************************************************************)

\* A create or import that reached the store.
IsCreate(e) == e.op \in {"create", "import"} /\ e.err # "Invalid"

\* A delete that reached the store.
IsDelete(e) == e.op = "delete" /\ e.err # "Invalid"

\* No delete of klog[j]'s name completed between the calls i and j.
NoDeleteBetween(i, j) ==
    \A k \in (i + 1)..(j - 1) :
        ~(IsDelete(klog[k]) /\ klog[k].name = klog[j].name)

\* The creates of klog[j]'s name completed before j with no delete since.
CreatesBefore(j) ==
    {i \in 1..(j - 1) : /\ IsCreate(klog[i])
                        /\ klog[i].name = klog[j].name
                        /\ NoDeleteBetween(i, j)}

\* The calls on klog[j]'s name completed after j.
LaterOn(j) ==
    {k \in (j + 1)..Len(klog) : klog[k].name = klog[j].name /\ klog[k].err # "Invalid"}

OpenedSameKey ==
    /\ opened # NoOpened
    /\ opened.name = sealedbox.name
    /\ \E e \in Stored(opened.name) : e.value = sealedbox.key

C11_WitnessMismatch ==
    /\ OpenedSameKey
    /\ sealedbox.op = "encrypt"
    /\ opened.context.bytes # sealedbox.context.bytes
    /\ opened.err = "NotAuthentic"

(***************************************************************************)
(* Properties of the list operations                                       *)
(***************************************************************************)

\* Shell globbing, stated by what a pattern denotes: s matches the pattern
\* iff s splits into one part per pattern element, a literal's part being
\* the literal, a ?'s part one character other than "/", a *'s part any run
\* of characters other than "/".
Glob(pattern, s) ==
    \E cut \in [0..Len(pattern) -> 0..Len(s)] :
        /\ cut[0] = 0
        /\ cut[Len(pattern)] = Len(s)
        /\ \A i \in 1..Len(pattern) :
              /\ cut[i - 1] <= cut[i]
              /\ LET part == SubSeq(s, cut[i - 1] + 1, cut[i]) IN
                 CASE pattern[i] = "*" -> \A j \in 1..Len(part) : part[j] # "/"
                   [] pattern[i] = "?" -> Len(part) = 1 /\ part[1] # "/"
                   [] OTHER -> part = <<pattern[i]>>

\* The listing ran to its end without an error.
Listed ==
    /\ listing.pc = "done"
    /\ listing.status = "OK"
    /\ listing.failed = ""
    /\ listing.iterator = "closed"
    /\ listing.pattern # <<>>

Emitted == {listing.records[i].Identity : i \in 1..Len(listing.records)}

Last(seq) == seq[Len(seq)]

\* The records of the listing but the last.
Front(seq) == SubSeq(seq, 1, Len(seq) - 1)

\* C20: an error of the listing that occurs after a record was written is
\* reported as one trailing error record after the records sent, and one
\* that occurs before any record was written as an HTTP error response
\* without a record, for an error of GetIdentity in the loop as for one of
\* the iterator's Close.
C20_ErrorReporting ==
    (listing.pc = "done" /\ listing.failed # "") =>
        IF listing.hasWritten
        THEN /\ listing.status = "OK"
             /\ Len(listing.records) >= 2
             /\ Last(listing.records) = ErrRecord(listing.failed)
             /\ \A i \in 1..Len(Front(listing.records)) : listing.records[i].Err = ""
        ELSE /\ listing.status = listing.failed
             /\ listing.records = <<>>

\* C21: when listIdentity has returned, an iterator it obtained from
\* ListIdentities is closed, on every path: after exhaustion, after a
\* GetIdentity that failed and after a write of a record that failed.
C21_IteratorClosed ==
    listing.pc = "done" => listing.iterator # "open"

(***************************************************************************)
(* Properties of the stateless vault                                       *)
(***************************************************************************)

\* C13: after any sequence of Seal, Unseal, CreateEnclave, DeleteEnclave and
\* GetEnclave calls the vault holds the enclave it was constructed with, and
\* GetEnclave returns that enclave for the empty name and fails with
\* EnclaveNotFound for every other name.
C13_DefaultEnclave ==
    /\ enclave = DefaultEnclave
    /\ \A name \in EnclaveNames :
          GetEnclaveResult(name) =
              IF name = "" THEN [err |-> "OK", enclave |-> DefaultEnclave]
              ELSE [err |-> "EnclaveNotFound", enclave |-> NoEnclave]
    /\ vlast.op = "GetEnclave" =>
          IF vlast.name = ""
          THEN vlast.err = "OK" /\ vlast.enclave = DefaultEnclave
          ELSE vlast.err = "EnclaveNotFound" /\ vlast.enclave = NoEnclave

\* The vault was sealed, CreateEnclave and DeleteEnclave had been called, the
\* identity set had grown, and GetEnclave("") returned the default enclave.
C13_Witness ==
    /\ opSealed
    /\ {"CreateEnclave", "DeleteEnclave"} \subseteq vlast.called
    /\ DOMAIN identities # {Admin}
    /\ vlast.op = "GetEnclave" /\ vlast.name = ""
    /\ vlast.err = "OK" /\ vlast.enclave = DefaultEnclave

\* C14: CreateEnclave and DeleteEnclave fail with NotImplemented for every
\* name, the empty name included, return no enclave, and leave the vault, its
\* enclave and its operator as they were; Operator returns the identity given
\* at construction.
C14_NotImplemented ==
    /\ operator = Admin
    /\ Operator = [err |-> "OK", identity |-> Admin]
    /\ vlast.op \in {"CreateEnclave", "DeleteEnclave"} =>
          /\ vlast.err = "NotImplemented"
          /\ vlast.enclave = NoEnclave
          /\ vlast.after = vlast.before
    /\ vlast.op = "Operator" => vlast.err = "OK" /\ vlast.identity = Admin

\* DeleteEnclave of the default enclave failed with NotImplemented, after a
\* CreateEnclave call, and the enclave is still there.
C14_Witness ==
    /\ vlast.op = "DeleteEnclave" /\ vlast.name = ""
    /\ "CreateEnclave" \in vlast.called
    /\ vlast.err = "NotImplemented"
    /\ GetEnclaveResult("").enclave = DefaultEnclave

(***************************************************************************)
(* Properties of the request pipeline                                      *)
(***************************************************************************)

\* The handler of the connection's request has not finished.
Unfinished(c) == conns[c].pc \in {"started", "worked"}

\* The handler of the connection's request has run its checks.
HasRun(c) == conns[c].pc \in {"worked", "written"}

C17_AuditFinalStatus ==
    \A c \in Conns :
        conns[c].pc = "written" =>
            conns[c].audit # "" /\ conns[c].audit = conns[c].client

\* The HTTP status of an error kind.
Code(status) ==
    CASE status = "OK" -> 200
      [] status = "Invalid" -> 400
      [] status = "NotAuthorized" -> 401
      [] status = "Forbidden" -> 403
      [] status \in {"NotFound", "EnclaveNotFound"} -> 404
      [] status = "MethodNotAllowed" -> 405
      [] status = "NotImplemented" -> 501
      [] status \in {"Sealed", "Unreachable"} -> 503
      [] status = "Timeout" -> 504

\* The counters with one request more counted in the class of the code.
Counted(code) ==
    IF code < 400 THEN [metrics EXCEPT !.ok = @ + 1]
    ELSE IF code < 500 THEN [metrics EXCEPT !.err = @ + 1]
    ELSE [metrics EXCEPT !.fail = @ + 1]

\* C18: the request count is the sum of the three class counters and the
\* requests whose handler has not written yet, so that the two are equal
\* once the requests have completed; each request is counted once when it
\* arrives and once, in the class of its status, when its handler writes,
\* also when two handlers run at a time.
C18_RequestCount ==
    /\ [](metrics.requests = metrics.ok + metrics.err + metrics.fail
                                + Cardinality({c \in Conns : Unfinished(c)}))
    /\ []((\A c \in Conns : ~Unfinished(c)) =>
            metrics.requests = metrics.ok + metrics.err + metrics.fail)
    /\ [][\A c \in Conns :
            /\ (conns[c].pc = "idle" /\ conns'[c].pc = "started") =>
                  metrics' = [metrics EXCEPT !.requests = @ + 1]
            /\ (conns[c].pc = "worked" /\ conns'[c].pc = "written") =>
                  metrics' = Counted(Code(conns[c].status))]_vars

\* Three requests have completed, one in each class, two of them in flight
\* at a time.
C18_Witness ==
    /\ \A c \in Conns : conns[c].pc = "written"
    /\ metrics = [requests |-> 3, ok |-> 1, err |-> 1, fail |-> 1]

Position(order, stage) == CHOOSE i \in 1..Len(order) : order[i] = stage

\* The stages of the sequence come in the order given.
Ordered(stages, order) ==
    \A i \in 1..Len(stages), j \in 1..Len(stages) :
        i < j => Position(order, stages[i]) < Position(order, stages[j])

\* The order of the stages as spec 4.7 lists them.
ListedOrder ==
    <<"method", "normalize", "bodycap", "proxy", "deadline", "authorize",
      "audit", "metrics", "handler">>

\* The order of the stages as the routes compose them.
ComposedOrder ==
    <<"deadline", "proxy", "metrics", "audit", "method", "normalize", "bodycap",
      "authorize", "handler">>

\* The handler returned at one of its checks: the stage that rejected.
RejectedAt(c) == IF Last(conns[c].stages) = "handler" THEN "" ELSE Last(conns[c].stages)

====
